---- MODULE Spec2Model ----
(***************************************************************************)
(* Model of the three Superstore analysis scripts:                         *)
(*   superstore_analysis.py            ("basic")                           *)
(*   enhanced_superstore_analysis.py   ("enhanced")                        *)
(*   interactive_dashboard.py          ("dashboard")                       *)
(*                                                                         *)
(* Units.  Money (Sales, Profit) is an integer number of mills (1/1000 of  *)
(* a dollar), Discount is an integer number of percent (0.1 is 10), so the *)
(* bin edges 1000, 5000, 10000 are 1000000, 5000000, 10000000 and the      *)
(* discount edges 0.1 ... 1.0 are 10 ... 100.  Ratios are exact rationals  *)
(* or one of the IEEE specials nan, inf, -inf, which is what numpy yields  *)
(* for a division by zero.                                                 *)
(***************************************************************************)
EXTENDS Integers, Sequences, FiniteSets, TLC

VARIABLES
    script,      \* which of the three scripts runs
    pc,          \* position in the script
    raw,         \* rows of Superstore.csv as read by pd.read_csv
    columns,     \* the column names of Superstore.csv (df.columns)
    df,          \* the frame after cleaning (df / df_cleaned / load_data())
    filters,     \* dashboard sidebar selections
    filtered_df, \* dashboard: the frame after the sidebar filters
    out          \* the results computed so far, by the source's variable names

vars == <<script, pc, raw, columns, df, filters, filtered_df, out>>

-----------------------------------------------------------------------------
(* Sequences and sets *)

Range(s) == {s[i] : i \in 1..Len(s)}

RECURSIVE SumSet(_, _)
\* sum of f[x] over x in S
SumSet(f, S) ==
    IF S = {} THEN 0
    ELSE LET x == CHOOSE y \in S : TRUE IN f[x] + SumSet(f, S \ {x})

\* the subsequence of s at the (ascending) indices in I
SubSeqAt(s, I) ==
    LET F[i \in 0..Len(s)] ==
            IF i = 0 THEN <<>>
            ELSE IF i \in I THEN Append(F[i - 1], s[i]) ELSE F[i - 1]
    IN F[Len(s)]

\* the first n elements (DataFrame.head(n))
Head_n(s, n) == IF Len(s) <= n THEN s ELSE SubSeq(s, 1, n)

-----------------------------------------------------------------------------
(* Floating-point values: an exact rational n/d, or nan / inf / -inf *)

Abs(x) == IF x < 0 THEN -x ELSE x

RECURSIVE GCD(_, _)
GCD(a, b) == IF b = 0 THEN a ELSE GCD(b, a % b)

NaN    == [k |-> "nan",  n |-> 0, d |-> 1]
PosInf == [k |-> "inf",  n |-> 0, d |-> 1]
NegInf == [k |-> "-inf", n |-> 0, d |-> 1]

\* the rational n/d (d # 0) in lowest terms with a positive denominator
Frac(n, d) ==
    LET g == GCD(Abs(n), Abs(d))
        s == IF d < 0 THEN -1 ELSE 1
    IN [k |-> "num", n |-> (s * n) \div g, d |-> (s * d) \div g]

Num(x) == [k |-> "num", n |-> x, d |-> 1]

IsNum(f) == f.k = "num"
IsNaN(f) == f.k = "nan"
IsInf(f) == f.k \in {"inf", "-inf"}

\* numpy float division a / b of two finite numbers
FDiv(a, b) ==
    IF b # 0 THEN Frac(a, b)
    ELSE IF a > 0 THEN PosInf
    ELSE IF a < 0 THEN NegInf
    ELSE NaN

\* n / d rounded to the nearest integer, halves to the even one (d > 0)
RoundHalfEven(n, d) ==
    LET q == n \div d
        r == n % d
    IN IF 2 * r < d THEN q
       ELSE IF 2 * r > d THEN q + 1
       ELSE IF q % 2 = 0 THEN q ELSE q + 1

\* Series.round(2) of a ratio: nan and the infinities stay what they are
FRound2(f) ==
    IF IsNum(f) THEN Frac(RoundHalfEven(f.n * 100, f.d), 100) ELSE f

\* DataFrame.round(2) of a money amount held in mills
Round2(x) == RoundHalfEven(x, 10) * 10

\* profit / sales * 100
MarginPct(profit, sales) == FDiv(profit * 100, sales)

-----------------------------------------------------------------------------
(* Dates.  A raw date is the text dd/mm/yyyy as the triple <<dd, mm, yyyy>> *)

DaysInMonth == <<31, 28, 31, 30, 31, 30, 31, 31, 30, 31, 30, 31>>

NaT == [nat |-> TRUE, y |-> 0, m |-> 0, d |-> 0]

\* pd.to_datetime(..., dayfirst=True, errors='coerce') on one cell
ToDatetime(t) ==
    IF /\ t[2] \in 1..12
       /\ t[1] >= 1
       /\ t[1] <= DaysInMonth[t[2]]
    THEN [nat |-> FALSE, y |-> t[3], m |-> t[2], d |-> t[1]]
    ELSE NaT

\* .dt.year, .dt.month, .dt.quarter: NaN on NaT
DtYear(dt)    == IF dt.nat THEN NaN ELSE Num(dt.y)
DtMonth(dt)   == IF dt.nat THEN NaN ELSE Num(dt.m)
DtQuarter(dt) == IF dt.nat THEN NaN ELSE Num(((dt.m - 1) \div 3) + 1)

\* day number within a non-leap year
RECURSIVE DaysBefore(_)
DaysBefore(m) == IF m = 1 THEN 0 ELSE DaysInMonth[m - 1] + DaysBefore(m - 1)

Ordinal(dt) == 365 * dt.y + DaysBefore(dt.m) + dt.d

\* chronological order of two valid dates
DateLeq(a, b) == Ordinal(a) <= Ordinal(b)

\* (ship - order).dt.days
ShippingDaysOf(ship, order) ==
    IF ship.nat \/ order.nat THEN NaN ELSE Num(Ordinal(ship) - Ordinal(order))

-----------------------------------------------------------------------------
(* Input rows *)

\* key columns in ascending (lexicographic) order, as groupby sorts them
NameOrder     == <<"A", "B", "C", "D", "E", "F", "G", "H", "I", "J", "K", "L", "M">>
Categories    == <<"Furniture", "Technology">>
SubCategories == <<"Chairs", "Phones">>
Regions       == <<"East", "West">>
States        == <<"California", "New York">>
ShipModes     == <<"First Class", "Second Class">>

BadDate == <<31, 2, 2014>>

Base ==
    [OrderID |-> "O1", Customer |-> "A", Product |-> "A",
     Category |-> "Furniture", SubCategory |-> "Chairs",
     Region |-> "East", State |-> "New York", ShipMode |-> "First Class",
     OrderDate |-> <<15, 1, 2014>>, ShipDate |-> <<17, 1, 2014>>,
     Sales |-> 100000, Quantity |-> 2, Discount |-> 10, Profit |-> 20000,
     PostalCode |-> Num(10001)]

Other ==
    [OrderID |-> "O2", Customer |-> "B", Product |-> "B",
     Category |-> "Technology", SubCategory |-> "Phones",
     Region |-> "West", State |-> "California", ShipMode |-> "Second Class",
     OrderDate |-> <<3, 2, 2014>>, ShipDate |-> <<8, 2, 2014>>,
     Sales |-> 200000, Quantity |-> 3, Discount |-> 75, Profit |-> -30000,
     PostalCode |-> Num(90001)]

\* the rows a file may hold: Base, Other and one-aspect variations of Base
RowPool ==
    { Base, Other,
      [Base EXCEPT !.Product = "B", !.Discount = 55],
      [Base EXCEPT !.Sales = 0, !.Profit = 5000],
      [Base EXCEPT !.Sales = 0, !.Profit = 0],
      [Base EXCEPT !.Sales = 3004, !.Profit = 1000],
      [Base EXCEPT !.Sales = 1000000],
      [Base EXCEPT !.Sales = 10000004],
      [Base EXCEPT !.Discount = 0],
      [Base EXCEPT !.OrderDate = BadDate],
      [Base EXCEPT !.ShipDate = BadDate],
      [Base EXCEPT !.PostalCode = NaN] }

MaxRows == 2

Inputs == UNION {[1..n -> RowPool] : n \in 0..MaxRows}

\* a file of many products: product i sells i (or, reversed, LossRows+1-i)
\* dollars and loses i dollars, except the products in pos, which earn 1
LossRows == 11

LossInput(rev, pos) ==
    [i \in 1..LossRows |->
        [Base EXCEPT !.Product = NameOrder[i],
                     !.Sales   = IF rev THEN (LossRows + 1 - i) * 1000 ELSE i * 1000,
                     !.Profit  = IF i \in pos THEN 1000 ELSE -(i * 1000)]]

LossInputs == {LossInput(rev, pos) : rev \in BOOLEAN, pos \in SUBSET (1..3)}

\* files of ShipRows rows of one ship mode: shipped after 2 days, after 3
\* days, or with a ship date that does not parse
ShipRows == 3

ShipInputs ==
    [1..ShipRows -> {Base, [Base EXCEPT !.ShipDate = <<18, 1, 2014>>],
                     [Base EXCEPT !.ShipDate = BadDate]}]

Scripts == {"basic", "enhanced", "dashboard"}

\* the columns the scripts address by name
AllColumns ==
    {"Order ID", "Customer Name", "Product Name", "Category", "Sub-Category",
     "Region", "State", "Ship Mode", "Order Date", "Ship Date", "Sales",
     "Quantity", "Discount", "Profit", "Shipping Cost", "Postal Code"}

\* the columns a file may lack: each is first read well after the cleaning
Droppable == {"Shipping Cost", "Ship Mode", "Discount"}

\* the files: every input with all its columns, and one two-row file with
\* one column missing
\* the headers a file can have: all the columns, or one column short
Headers == {AllColumns} \cup {AllColumns \ {c} : c \in Droppable}

Files ==
    {<<rows, AllColumns>> : rows \in Inputs}
        \cup {<<(<<Base, Other>>), AllColumns \ {c}>> : c \in Droppable}

-----------------------------------------------------------------------------
(* Cleaning *)

\* lines 30-31 / 36-37 / 46-47: both date columns parsed
ParseDates(rows) ==
    [i \in 1..Len(rows) |->
        [rows[i] EXCEPT !.OrderDate = ToDatetime(rows[i].OrderDate),
                        !.ShipDate  = ToDatetime(rows[i].ShipDate)]]

\* the derived columns of the enhanced script and of the dashboard
AddFeatures(rows) ==
    [i \in 1..Len(rows) |->
        LET r == rows[i] IN
        [OrderID |-> r.OrderID, Customer |-> r.Customer, Product |-> r.Product,
         Category |-> r.Category, SubCategory |-> r.SubCategory,
         Region |-> r.Region, State |-> r.State, ShipMode |-> r.ShipMode,
         OrderDate |-> r.OrderDate, ShipDate |-> r.ShipDate,
         Sales |-> r.Sales, Quantity |-> r.Quantity, Discount |-> r.Discount,
         Profit |-> r.Profit, PostalCode |-> r.PostalCode,
         OrderYear    |-> DtYear(r.OrderDate),
         OrderMonth   |-> DtMonth(r.OrderDate),
         OrderQuarter |-> DtQuarter(r.OrderDate),
         ShippingDays |-> ShippingDaysOf(r.ShipDate, r.OrderDate),
         ProfitMargin |-> FRound2(MarginPct(r.Profit, r.Sales))]]

\* the first row of each order stays
DropDuplicatesPerOrder(rows) ==
    SubSeqAt(rows, {i \in 1..Len(rows) :
                        \A j \in 1..(i - 1) : rows[j].OrderID # rows[i].OrderID})

\* DataFrame.drop_duplicates(): the first of each run of identical rows stays
DropDuplicates(rows) ==
    SubSeqAt(rows, {i \in 1..Len(rows) : \A j \in 1..(i - 1) : rows[j] # rows[i]})

\* DataFrame.dropna(): a row with any missing cell goes
DropNaAny(rows) ==
    SubSeqAt(rows, {i \in 1..Len(rows) :
                        /\ ~rows[i].OrderDate.nat
                        /\ ~rows[i].ShipDate.nat
                        /\ ~IsNaN(rows[i].PostalCode)})

\* dropna(subset=['Postal Code', 'Order Date'])
DropNaPostalOrDate(rows) ==
    SubSeqAt(rows, {i \in 1..Len(rows) :
                        ~IsNaN(rows[i].PostalCode) /\ ~rows[i].OrderDate.nat})

\* DataFrame.dropna(subset=['Postal Code'])
DropNaPostal(rows) ==
    SubSeqAt(rows, {i \in 1..Len(rows) : ~IsNaN(rows[i].PostalCode)})

\* superstore_analysis.py, section 4
BasicCleaned(rows) == DropNaAny(DropDuplicates(ParseDates(rows)))

\* the enhanced cleaning with the basic script's drop_duplicates() kept
EnhancedCleanedDedup(rows) ==
    SubSeqAt(AddFeatures(DropDuplicates(ParseDates(rows))),
             {i \in 1..Len(DropDuplicates(ParseDates(rows))) :
                  ~IsNaN(DropDuplicates(ParseDates(rows))[i].PostalCode)})

\* enhanced_superstore_analysis.py, section 2
EnhancedCleaned(rows) == DropNaPostal(AddFeatures(ParseDates(rows)))

\* interactive_dashboard.py, load_data()
load_data(rows) == DropNaPostal(AddFeatures(ParseDates(rows)))

-----------------------------------------------------------------------------
(* pandas primitives *)

NaNLabel == "NaN"

\* float('inf') as a bin edge: above every amount of the model
Infinity == 2147483647

\* pd.cut with right=False: the intervals closed on the left
CutLeftClosed(x, bins, labels) ==
    LET ids == Cardinality({j \in 1..Len(bins) : bins[j] <= x})
    IN IF ids = 0 \/ ids = Len(bins) THEN NaNLabel ELSE labels[ids]

\* pd.cut(x, bins, labels) with the defaults right=True, include_lowest=False:
\* ids = bins.searchsorted(x, side='left'); NaN where ids is 0 or len(bins)
Cut(x, bins, labels) ==
    LET ids == Cardinality({j \in 1..Len(bins) : bins[j] < x})
    IN IF ids = 0 \/ ids = Len(bins) THEN NaNLabel ELSE labels[ids]

CustomerBins   == <<0, 1000000, 5000000, 10000000, Infinity>>
CustomerLabels == <<"Bronze", "Silver", "Gold", "Platinum">>

DiscountBins   == <<0, 10, 20, 30, 40, 50, 100>>
DiscountLabels == <<"0-10%", "10-20%", "20-30%", "30-40%", "40-50%", "50%+">>

\* the columns the scripts group by
ByProduct     == "Product"
ByCustomer    == "Customer"
ByCategory    == "Category"
BySubCategory == "SubCategory"
ByRegion      == "Region"
ByState       == "State"
ByShipMode    == "ShipMode"
ByYearMonth   == "YearMonth"
ByDiscountBin == "Discount_Bin"

\* the key of row r under groupby(by); ['Year', 'Month'] is a pair
KeyOf(r, by) == IF by = ByYearMonth THEN <<r.OrderYear, r.OrderMonth>> ELSE r[by]

IsNAYearMonth(k) == IsNaN(k[1]) \/ IsNaN(k[2])

IsNALabel(k) == k = NaNLabel

\* the key is missing: a NaN year or month, a discount outside every bin;
\* the other key columns hold no missing value in the inputs modelled
IsNA(k, by) ==
    IF by = ByYearMonth THEN IsNAYearMonth(k)
    ELSE IF by = ByDiscountBin THEN IsNALabel(k)
    ELSE FALSE

\* the rows of frame whose key is k
GroupIdx(frame, by, k) == {i \in 1..Len(frame) : KeyOf(frame[i], by) = k}

\* groupby with the default dropna=True, sort=True: the keys present, in
\* ascending order; a row whose key is missing belongs to no group.
\* universe lists the possible keys in ascending order.
GroupKeys(frame, by, universe) ==
    SelectSeq(universe, LAMBDA k : ~IsNA(k, by) /\ GroupIdx(frame, by, k) # {})

\* groupby on a categorical key with observed=False: every category is a
\* group, also the empty ones
GroupKeysAll(by, universe) == SelectSeq(universe, LAMBDA k : ~IsNA(k, by))

SumOf(frame, I, col) == SumSet([i \in I |-> frame[i][col]], I)

\* nunique(): distinct values, missing ones not counted
NUnique(frame, I, col) == Cardinality({frame[i][col] : i \in I})

NUniqueDates(frame, I) ==
    Cardinality({frame[i].OrderDate : i \in {j \in I : ~frame[j].OrderDate.nat}})

\* mean() of an integer-valued column with missing values, which it skips
MeanOf(frame, I, col) ==
    LET J == {i \in I : IsNum(frame[i][col])}
    IN FDiv(SumSet([i \in J |-> frame[i][col].n], J), Cardinality(J))

\* one group of a rollup with every reducer the scripts ask of it; rows is
\* the group's membership
GroupRow(frame, by, k) ==
    LET I == GroupIdx(frame, by, k)
    IN [key       |-> k,
        rows      |-> I,
        Sales     |-> SumOf(frame, I, "Sales"),
        Profit    |-> SumOf(frame, I, "Profit"),
        Quantity  |-> SumOf(frame, I, "Quantity"),
        Orders    |-> NUnique(frame, I, "OrderID"),
        Customers |-> NUnique(frame, I, "Customer")]

\* df.groupby(key).agg({...}) over the keys given
Agg(frame, by, keys) == [j \in 1..Len(keys) |-> GroupRow(frame, by, keys[j])]

GroupBy(frame, by, universe) == Agg(frame, by, GroupKeys(frame, by, universe))

\* .round(2) of an aggregate: the float columns Sales and Profit
RoundAgg(tbl) ==
    [j \in 1..Len(tbl) |->
        [tbl[j] EXCEPT !.Sales = Round2(@), !.Profit = Round2(@)]]

\* tbl['Profit_Margin'] = tbl['Profit'] / tbl['Sales'] * 100, with
\* .round(2) where the script asks for it
WithMargin(tbl, round2) ==
    [j \in 1..Len(tbl) |->
        [c \in DOMAIN tbl[j] \cup {"Profit_Margin"} |->
            IF c = "Profit_Margin"
            THEN IF round2 THEN FRound2(MarginPct(tbl[j].Profit, tbl[j].Sales))
                           ELSE MarginPct(tbl[j].Profit, tbl[j].Sales)
            ELSE tbl[j][c]]]

\* the positions of I with the greatest (desc) or least value of column col
Extremes(tbl, I, col, desc) ==
    {i \in I : \A j \in I : IF desc THEN tbl[j][col] <= tbl[i][col]
                                     ELSE tbl[i][col] <= tbl[j][col]}

RECURSIVE SortOrders(_, _, _, _)
\* sort_values(col) with the default kind='quicksort', which is not stable:
\* every arrangement of the positions I that is sorted by col, rows of equal
\* value in any order
SortOrders(tbl, I, col, desc) ==
    IF I = {} THEN {<<>>}
    ELSE UNION { { <<i>> \o t : t \in SortOrders(tbl, I \ {i}, col, desc) } :
                 i \in Extremes(tbl, I, col, desc) }

SortValues(tbl, col, desc) ==
    { [j \in 1..Len(tbl) |-> tbl[o[j]]] : o \in SortOrders(tbl, 1..Len(tbl), col, desc) }

RECURSIVE StableOrder(_, _, _)
\* descending by col, rows of equal value in their order in tbl
StableOrder(tbl, I, col) ==
    IF I = {} THEN <<>>
    ELSE LET E == Extremes(tbl, I, col, TRUE)
             i == CHOOSE e \in E : \A f \in E : e <= f
         IN <<i>> \o StableOrder(tbl, I \ {i}, col)

\* DataFrame.nlargest(n, col) with the default keep='first'
NLargest(tbl, n, col) ==
    LET o == StableOrder(tbl, 1..Len(tbl), col)
    IN Head_n([j \in 1..Len(tbl) |-> tbl[o[j]]], n)

\* head(10), nlargest(10, ...)
TopN == 10

-----------------------------------------------------------------------------
(* Grouping keys *)

\* the (year, month) keys, the missing one last
YearMonths ==
    << <<Num(2014), Num(1)>>, <<Num(2014), Num(2)>>, <<NaN, NaN>> >>

BinLabels == DiscountLabels \o <<NaNLabel>>

\* bands of one tenth each over the whole range
AddDiscountBinTenths(frame) ==
    [i \in 1..Len(frame) |->
        [c \in DOMAIN frame[i] \cup {"Discount_Bin"} |->
            IF c = "Discount_Bin"
            THEN Cut(frame[i].Discount,
                     <<0, 10, 20, 30, 40, 50, 60, 70, 80, 90, 100>>,
                     <<"0-10%", "10-20%", "20-30%", "30-40%", "40-50%",
                       "50%+", "60-70%", "70-80%", "80-90%", "90-100%">>)
            ELSE frame[i][c]]]

\* frame['Discount_Bin'] = pd.cut(frame['Discount'], bins=..., labels=...)
AddDiscountBin(frame) ==
    [i \in 1..Len(frame) |->
        [c \in DOMAIN frame[i] \cup {"Discount_Bin"} |->
            IF c = "Discount_Bin"
            THEN Cut(frame[i].Discount, DiscountBins, DiscountLabels)
            ELSE frame[i][c]]]

\* groupby('Discount_Bin'): a categorical key; observed tells whether the
\* pandas at hand lists only the categories that occur (the default from
\* pandas 3) or all of them (the default before)
GroupByBin(frame, observed) ==
    IF observed
    THEN GroupBy(frame, ByDiscountBin, BinLabels)
    ELSE Agg(frame, ByDiscountBin, GroupKeysAll(ByDiscountBin, BinLabels))

All(frame) == 1..Len(frame)

-----------------------------------------------------------------------------
(* The state machine *)

Put(rec) == rec @@ out

Init ==
    /\ script \in Scripts
    /\ pc = "start"
    /\ \E f \in Files : raw = f[1] /\ columns = f[2]
    /\ df = <<>>
    /\ filters = <<>>
    /\ filtered_df = <<>>
    /\ out = <<>>

Step(s, from, to) ==
    /\ script = s
    /\ pc = from
    /\ pc' = to
    /\ UNCHANGED <<script, raw, columns>>

\* frame[col] on a column the file lacks raises KeyError: the run stops with
\* what it has produced so far
KeyError(s, from) ==
    /\ script = s
    /\ pc = from
    /\ pc' = "KeyError"
    /\ UNCHANGED <<script, raw, columns, df, filters, filtered_df, out>>

-----------------------------------------------------------------------------
(* enhanced_superstore_analysis.py *)

\* section 2: dates, derived columns, dropna(subset=['Postal Code'])
EnhClean ==
    /\ Step("enhanced", "start", "time_series")
    /\ df' = EnhancedCleaned(raw)
    /\ UNCHANGED <<filters, filtered_df, out>>

\* 3.1: monthly_sales and monthly_profit
EnhTimeSeries ==
    /\ Step("enhanced", "time_series", "customer")
    /\ LET t == GroupBy(df, ByYearMonth, YearMonths)
       IN out' = Put([monthly_sales |-> t, monthly_profit |-> t])
    /\ UNCHANGED <<df, filters, filtered_df>>

\* Series.round(2) of a mean of money held in mills
FRound2Mills(f) ==
    IF IsNum(f) THEN Num(RoundHalfEven(f.n, f.d * 10) * 10) ELSE f

\* 3.2: customer_analysis with its Customer_Segment column
CustomerAnalysis(frame) ==
    LET keys == GroupKeys(frame, ByCustomer, NameOrder)
    IN [j \in 1..Len(keys) |->
          LET I == GroupIdx(frame, ByCustomer, keys[j])
              total == Round2(SumOf(frame, I, "Sales"))
          IN [key              |-> keys[j],
              rows             |-> I,
              Total_Sales      |-> total,
              Order_Count      |-> Cardinality(I),
              Avg_Order_Value  |-> FRound2Mills(FDiv(SumOf(frame, I, "Sales"), Cardinality(I))),
              Total_Profit     |-> Round2(SumOf(frame, I, "Profit")),
              Avg_Profit       |-> FRound2Mills(FDiv(SumOf(frame, I, "Profit"), Cardinality(I))),
              Unique_Days      |-> NUniqueDates(frame, I),
              Customer_Segment |-> Cut(total, CustomerBins, CustomerLabels)]]

EnhCustomer ==
    /\ Step("enhanced", "customer", "product")
    /\ out' = Put([customer_analysis |-> CustomerAnalysis(df)])
    /\ UNCHANGED <<df, filters, filtered_df>>

\* top_products[top_products['Profit'] < 0].head(10)
LossMakers(tbl) ==
    Head_n(SelectSeq(tbl, LAMBDA g : g.Profit < 0), TopN)

\* 3.3: top_products, top_10_sales, bottom_10_profit
EnhProduct ==
    /\ Step("enhanced", "product", "geographic")
    /\ \E sorted \in SortValues(RoundAgg(GroupBy(df, ByProduct, NameOrder)),
                                "Sales", TRUE) :
          LET top_products == WithMargin(sorted, TRUE)
          IN out' = Put([top_products     |-> top_products,
                         top_10_sales     |-> Head_n(top_products, TopN),
                         bottom_10_profit |-> LossMakers(top_products)])
    /\ UNCHANGED <<df, filters, filtered_df>>

\* Avg_Order_Value = (Sales / Order ID).round(2)
WithAvgOrderValue(tbl) ==
    [j \in 1..Len(tbl) |->
        [c \in DOMAIN tbl[j] \cup {"Avg_Order_Value"} |->
            IF c = "Avg_Order_Value"
            THEN FRound2Mills(FDiv(tbl[j].Sales, tbl[j].Orders))
            ELSE tbl[j][c]]]

\* 3.4: regional_analysis and state_analysis
EnhGeographic ==
    /\ Step("enhanced", "geographic", "category")
    /\ \E sorted \in SortValues(RoundAgg(GroupBy(df, ByState, States)),
                                "Sales", TRUE) :
          out' = Put([regional_analysis |->
                          WithAvgOrderValue(WithMargin(
                              RoundAgg(GroupBy(df, ByRegion, Regions)), TRUE)),
                      state_analysis |-> sorted,
                      top_states     |-> Head_n(sorted, TopN)])
    /\ UNCHANGED <<df, filters, filtered_df>>

\* 3.5: category_analysis and subcategory_analysis
EnhCategory ==
    /\ Step("enhanced", "category", "shipping")
    /\ \E sorted \in SortValues(RoundAgg(GroupBy(df, BySubCategory, SubCategories)),
                                "Sales", TRUE) :
          out' = Put([category_analysis |->
                          WithAvgOrderValue(WithMargin(
                              RoundAgg(GroupBy(df, ByCategory, Categories)), TRUE)),
                      subcategory_analysis |-> WithMargin(sorted, TRUE),
                      top_subcategories    |-> Head_n(WithMargin(sorted, TRUE), TopN)])
    /\ UNCHANGED <<df, filters, filtered_df>>

\* the 'Shipping Days': 'mean' column of shipping_analysis, with .round(2)
\* where the script asks for it
WithAvgShippingDays(tbl, frame, round2) ==
    [j \in 1..Len(tbl) |->
        [c \in DOMAIN tbl[j] \cup {"Avg_Shipping_Days"} |->
            IF c = "Avg_Shipping_Days"
            THEN IF round2 THEN FRound2(MeanOf(frame, tbl[j].rows, "ShippingDays"))
                           ELSE MeanOf(frame, tbl[j].rows, "ShippingDays")
            ELSE tbl[j][c]]]

\* 3.6: shipping_analysis
EnhShipping ==
    \/ /\ "Ship Mode" \in columns
       /\ Step("enhanced", "shipping", "discount")
       /\ out' = Put([shipping_analysis |->
                         WithMargin(
                             WithAvgShippingDays(
                                 RoundAgg(GroupBy(df, ByShipMode, ShipModes)),
                                 df, TRUE),
                             TRUE)])
       /\ UNCHANGED <<df, filters, filtered_df>>
    \/ /\ "Ship Mode" \notin columns
       /\ KeyError("enhanced", "shipping")

\* 3.7: the Discount_Bin column is added to df_cleaned, then discount_analysis
EnhDiscount ==
    \/ /\ "Discount" \in columns
       /\ Step("enhanced", "discount", "correlation")
       /\ df' = AddDiscountBin(df)
       /\ \E observed \in BOOLEAN :
             out' = Put([discount_analysis |->
                            WithAvgOrderValue(WithMargin(
                                RoundAgg(GroupByBin(df', observed)), TRUE))])
       /\ UNCHANGED <<filters, filtered_df>>
    \/ /\ "Discount" \notin columns
       /\ KeyError("enhanced", "discount")

\* the columns the correlation matrix is computed from (its values are not
\* modelled)
numeric_cols ==
    <<"Sales", "Quantity", "Discount", "Profit", "Shipping Cost", "Profit Margin">>

\* section 4: correlation_matrix
EnhCorrelation ==
    \/ /\ "Shipping Cost" \in columns
       /\ Step("enhanced", "correlation", "kpi")
       /\ out' = Put([correlation_cols |-> numeric_cols])
       /\ UNCHANGED <<df, filters, filtered_df>>
    \/ /\ "Shipping Cost" \notin columns
       /\ KeyError("enhanced", "correlation")

\* the KPIs with every ratio guarded the way the dashboard guards its margin
EnhancedKPIsGuarded(frame) ==
    LET total_sales     == SumOf(frame, All(frame), "Sales")
        total_profit    == SumOf(frame, All(frame), "Profit")
        total_orders    == NUnique(frame, All(frame), "OrderID")
        total_customers == NUnique(frame, All(frame), "Customer")
        Guarded(a, b)   == IF b > 0 THEN FDiv(a, b) ELSE Num(0)
    IN [total_sales             |-> total_sales,
        total_profit            |-> total_profit,
        total_orders            |-> total_orders,
        total_customers         |-> total_customers,
        total_products          |-> NUnique(frame, All(frame), "Product"),
        avg_order_value         |-> Guarded(total_sales, total_orders),
        avg_profit_margin       |-> Guarded(total_profit * 100, total_sales),
        customer_lifetime_value |-> Guarded(total_sales, total_customers),
        profit_per_order        |-> Guarded(total_profit, total_orders)]

\* section 5: the KPIs of the enhanced script
EnhancedKPIs(frame) ==
    LET total_sales     == SumOf(frame, All(frame), "Sales")
        total_profit    == SumOf(frame, All(frame), "Profit")
        total_orders    == NUnique(frame, All(frame), "OrderID")
        total_customers == NUnique(frame, All(frame), "Customer")
        total_products  == NUnique(frame, All(frame), "Product")
    IN [total_sales             |-> total_sales,
        total_profit            |-> total_profit,
        total_orders            |-> total_orders,
        total_customers         |-> total_customers,
        total_products          |-> total_products,
        avg_order_value         |-> FDiv(total_sales, total_orders),
        avg_profit_margin       |-> MarginPct(total_profit, total_sales),
        customer_lifetime_value |-> FDiv(total_sales, total_customers),
        profit_per_order        |-> FDiv(total_profit, total_orders)]

EnhKPI ==
    /\ Step("enhanced", "kpi", "report")
    /\ out' = Put([kpi |-> EnhancedKPIs(df)])
    /\ UNCHANGED <<df, filters, filtered_df>>

\* Series.idxmax(): the first row holding the greatest value
IdxMax(tbl, col) ==
    CHOOSE i \in 1..Len(tbl) :
        /\ \A j \in 1..Len(tbl) : tbl[j][col] <= tbl[i][col]
        /\ \A j \in 1..(i - 1) : tbl[j][col] < tbl[i][col]

\* section 6: best_category, best_region, best_product; idxmax and iloc[0]
\* raise on an empty table
EnhReport ==
    /\ script = "enhanced"
    /\ pc = "report"
    /\ IF Len(out.category_analysis) = 0
       THEN /\ pc' = "error"
            /\ out' = out
       ELSE /\ pc' = "done"
            /\ out' = Put([best_category |->
                               out.category_analysis[IdxMax(out.category_analysis, "Sales")].key,
                           best_region |->
                               out.regional_analysis[IdxMax(out.regional_analysis, "Sales")].key,
                           best_product |-> out.top_products[1].key])
    /\ UNCHANGED <<script, raw, columns, df, filters, filtered_df>>

-----------------------------------------------------------------------------
(* superstore_analysis.py *)

\* section 4: dates, drop_duplicates, dropna
BasicClean ==
    /\ Step("basic", "start", "univariate")
    /\ df' = BasicCleaned(raw)
    /\ UNCHANGED <<filters, filtered_df, out>>

\* section 5: top_products
BasicTopProducts ==
    /\ Step("basic", "univariate", "bivariate")
    /\ \E sorted \in SortValues(GroupBy(df, ByProduct, NameOrder), "Sales", TRUE) :
          out' = Put([top_products |-> Head_n(sorted, TopN)])
    /\ UNCHANGED <<df, filters, filtered_df>>

\* section 6: the Discount vs Profit plot (line 86), then region_profit
BasicRegionProfit ==
    \/ /\ "Discount" \in columns
       /\ Step("basic", "bivariate", "advanced")
       /\ \E sorted \in SortValues(GroupBy(df, ByRegion, Regions), "Profit", FALSE) :
             out' = Put([region_profit |-> sorted])
       /\ UNCHANGED <<df, filters, filtered_df>>
    \/ /\ "Discount" \notin columns
       /\ KeyError("basic", "bivariate")

\* section 7: cat_profit, sub_profit, sub_sales
BasicAdvanced ==
    /\ Step("basic", "advanced", "insights")
    /\ \E c \in SortValues(GroupBy(df, ByCategory, Categories), "Profit", FALSE),
          p \in SortValues(GroupBy(df, BySubCategory, SubCategories), "Profit", FALSE),
          t \in SortValues(GroupBy(df, BySubCategory, SubCategories), "Sales", FALSE) :
          out' = Put([cat_profit |-> c, sub_profit |-> p, sub_sales |-> t])
    /\ UNCHANGED <<df, filters, filtered_df>>

\* section 8, ADDITIONAL INSIGHTS
BasicKPIs(frame) ==
    [total_sales       |-> SumOf(frame, All(frame), "Sales"),
     total_profit      |-> SumOf(frame, All(frame), "Profit"),
     avg_profit_margin |-> MarginPct(SumOf(frame, All(frame), "Profit"),
                                     SumOf(frame, All(frame), "Sales")),
     total_orders      |-> Len(frame),
     total_products    |-> NUnique(frame, All(frame), "Product"),
     total_customers   |-> NUnique(frame, All(frame), "Customer")]

BasicInsights ==
    /\ Step("basic", "insights", "done")
    /\ out' = Put([kpi |-> BasicKPIs(df)])
    /\ UNCHANGED <<df, filters, filtered_df>>

-----------------------------------------------------------------------------
(* interactive_dashboard.py *)

DashLoad ==
    /\ Step("dashboard", "start", "sidebar")
    /\ df' = load_data(raw)
    /\ UNCHANGED <<filters, filtered_df, out>>

ValidDates(frame) ==
    {frame[i].OrderDate : i \in {j \in 1..Len(frame) : ~frame[j].OrderDate.nat}}

\* df['Order Date'].min() and .max(): missing dates are skipped, and the
\* result is NaT when every date is missing
min_date(frame) ==
    LET D == ValidDates(frame)
    IN IF D = {} THEN NaT ELSE CHOOSE a \in D : \A b \in D : DateLeq(a, b)

max_date(frame) ==
    LET D == ValidDates(frame)
    IN IF D = {} THEN NaT ELSE CHOOSE a \in D : \A b \in D : DateLeq(b, a)

\* what st.sidebar.date_input can return: a (start, end) pair within
\* [min_date, max_date], or the 1-tuple of a selection under way
DateRanges(frame) ==
    LET D == ValidDates(frame)
    IN {p \in D \X D : DateLeq(p[1], p[2])} \cup {<<a>> : a \in D}

\* the date filter with the end date left out: start <= d < end
InDateRangeHalfOpen(r, date_range) ==
    /\ ~r.OrderDate.nat
    /\ ~date_range[1].nat
    /\ ~date_range[2].nat
    /\ DateLeq(date_range[1], r.OrderDate)
    /\ Ordinal(r.OrderDate) < Ordinal(date_range[2])

\* the row passes the date filter: a missing order date compares False
InDateRange(r, date_range) ==
    /\ ~r.OrderDate.nat
    /\ ~date_range[1].nat
    /\ ~date_range[2].nat
    /\ DateLeq(date_range[1], r.OrderDate)
    /\ DateLeq(r.OrderDate, date_range[2])

Passes(r, f) ==
    /\ Len(f.date_range) = 2 => InDateRange(r, f.date_range)
    /\ f.selected_category # "All" => r.Category = f.selected_category
    /\ f.selected_region # "All" => r.Region = f.selected_region

\* lines 86-98
ApplyFilters(frame, f) ==
    SubSeqAt(frame, {i \in 1..Len(frame) : Passes(frame[i], f)})

\* lines 65-98: the sidebar selections, then filtered_df.  With no valid
\* order date min_date and max_date are NaT: the date widget either rejects
\* them or hands them back.
DashSidebar ==
    /\ script = "dashboard"
    /\ pc = "sidebar"
    /\ \E cat \in {"All"} \cup {df[i].Category : i \in 1..Len(df)},
          reg \in {"All"} \cup {df[i].Region : i \in 1..Len(df)} :
          \/ /\ \E dr \in DateRanges(df) :
                   filters' = [date_range |-> dr, selected_category |-> cat,
                               selected_region |-> reg]
             /\ filtered_df' = ApplyFilters(df, filters')
             /\ pc' = "metrics"
          \/ /\ ValidDates(df) = {}
             /\ filters' = [date_range |-> <<NaT, NaT>>, selected_category |-> cat,
                            selected_region |-> reg]
             /\ filtered_df' = ApplyFilters(df, filters')
             /\ pc' = "metrics"
          \/ /\ ValidDates(df) = {}
             /\ cat = "All"
             /\ reg = "All"
             /\ filters' = filters
             /\ filtered_df' = filtered_df
             /\ pc' = "error"
    /\ UNCHANGED <<script, raw, columns, df, out>>

\* lines 103-117
DashKeyMetrics ==
    /\ Step("dashboard", "metrics", "tab1")
    /\ LET total_sales  == SumOf(filtered_df, All(filtered_df), "Sales")
           total_profit == SumOf(filtered_df, All(filtered_df), "Profit")
       IN out' = Put([total_sales   |-> total_sales,
                      total_profit  |-> total_profit,
                      profit_margin |-> IF total_sales > 0
                                        THEN MarginPct(total_profit, total_sales)
                                        ELSE Num(0),
                      total_orders  |-> NUnique(filtered_df, All(filtered_df), "OrderID")])
    /\ UNCHANGED <<df, filters, filtered_df>>

\* lines 122-170
DashTab1 ==
    /\ Step("dashboard", "tab1", "tab2")
    /\ out' = Put([monthly_sales   |-> GroupBy(filtered_df, ByYearMonth, YearMonths),
                   category_sales  |-> GroupBy(filtered_df, ByCategory, Categories),
                   category_profit |-> WithMargin(GroupBy(filtered_df, ByCategory,
                                                          Categories), FALSE)])
    /\ UNCHANGED <<df, filters, filtered_df>>

\* customer_analysis['Customer_Segment'] = pd.cut(customer_analysis['Sales'], ...)
WithSegment(tbl) ==
    [j \in 1..Len(tbl) |->
        [c \in DOMAIN tbl[j] \cup {"Customer_Segment"} |->
            IF c = "Customer_Segment"
            THEN Cut(tbl[j].Sales, CustomerBins, CustomerLabels)
            ELSE tbl[j][c]]]

\* Series.value_counts(): how many rows carry each label
ValueCounts(tbl, col, labels) ==
    [l \in Range(labels) |-> Cardinality({j \in 1..Len(tbl) : tbl[j][col] = l})]

\* lines 172-220
DashTab2 ==
    /\ Step("dashboard", "tab2", "tab3")
    /\ LET customer_analysis ==
               WithSegment(GroupBy(filtered_df, ByCustomer, NameOrder))
           total_customers == NUnique(filtered_df, All(filtered_df), "Customer")
           sales == SumOf(filtered_df, All(filtered_df), "Sales")
       IN out' = Put([customer_analysis |-> customer_analysis,
                      segment_counts    |-> ValueCounts(customer_analysis,
                                                "Customer_Segment", CustomerLabels),
                      top_customers     |-> NLargest(customer_analysis, TopN, "Sales"),
                      total_customers   |-> total_customers,
                      avg_order_value   |->
                          FDiv(sales, NUnique(filtered_df, All(filtered_df), "OrderID")),
                      customer_lifetime_value |-> FDiv(sales, total_customers)])
    /\ UNCHANGED <<df, filters, filtered_df>>

\* a + b for floats
FAdd(a, b) ==
    IF IsNaN(a) \/ IsNaN(b) THEN NaN
    ELSE IF IsInf(a) /\ IsInf(b) THEN (IF a = b THEN a ELSE NaN)
    ELSE IF IsInf(a) THEN a
    ELSE IF IsInf(b) THEN b
    ELSE Frac(a.n * b.d + b.n * a.d, a.d * b.d)

RECURSIVE FSum(_, _)
FSum(f, S) ==
    IF S = {} THEN Num(0)
    ELSE LET x == CHOOSE y \in S : TRUE IN FAdd(f[x], FSum(f, S \ {x}))

\* Series.mean() of a float column: missing values are skipped
FMean(tbl, col) ==
    LET J == {j \in 1..Len(tbl) : ~IsNaN(tbl[j][col])}
        t == FSum([j \in J |-> tbl[j][col]], J)
    IN IF J = {} THEN NaN
       ELSE IF IsNum(t) THEN Frac(t.n, t.d * Cardinality(J))
       ELSE t

\* lines 222-272; idxmax raises on an empty product_analysis
DashTab3 ==
    /\ script = "dashboard"
    /\ pc = "tab3"
    /\ LET product_analysis ==
               WithMargin(GroupBy(filtered_df, ByProduct, NameOrder), FALSE)
           first == [product_analysis |-> product_analysis,
                     top_products     |-> NLargest(product_analysis, TopN, "Sales"),
                     subcategory_analysis |->
                         WithMargin(GroupBy(filtered_df, BySubCategory, SubCategories), FALSE),
                     total_products   |-> NUnique(filtered_df, All(filtered_df), "Product")]
       IN IF Len(product_analysis) = 0
          THEN /\ pc' = "error"
               /\ out' = Put(first)
          ELSE /\ pc' = "tab4"
               /\ out' = Put(first @@
                             [best_product |->
                                  product_analysis[IdxMax(product_analysis, "Sales")].key,
                              avg_profit_margin |-> FMean(product_analysis, "Profit_Margin")])
    /\ UNCHANGED <<script, raw, columns, df, filters, filtered_df>>

\* a < b for floats, neither missing
FLess(a, b) ==
    IF a = b THEN FALSE
    ELSE IF a.k = "-inf" \/ b.k = "inf" THEN TRUE
    ELSE IF a.k = "inf" \/ b.k = "-inf" THEN FALSE
    ELSE a.n * b.d < b.n * a.d

RECURSIVE StableOrderF(_, _, _)
\* descending by the float column col, equal values in their order in tbl,
\* missing values last
StableOrderF(tbl, I, col) ==
    IF I = {} THEN <<>>
    ELSE LET V == {i \in I : ~IsNaN(tbl[i][col])}
             E == IF V = {} THEN I
                  ELSE {i \in V : \A j \in V : ~FLess(tbl[i][col], tbl[j][col])}
             i == CHOOSE e \in E : \A f \in E : e <= f
         IN <<i>> \o StableOrderF(tbl, I \ {i}, col)

NLargestF(tbl, n, col) ==
    LET o == StableOrderF(tbl, 1..Len(tbl), col)
    IN Head_n([j \in 1..Len(tbl) |-> tbl[o[j]]], n)

\* lines 274-330
DashTab4 ==
    /\ Step("dashboard", "tab4", "tab5")
    /\ \E sorted \in SortValues(GroupBy(filtered_df, ByState, States),
                                "Sales", TRUE) :
          out' = Put([regional_analysis |->
                          WithMargin(GroupBy(filtered_df, ByRegion, Regions), FALSE),
                      state_analysis    |-> WithMargin(sorted, FALSE),
                      top_states        |-> Head_n(sorted, TopN),
                      top_profit_states |->
                          NLargestF(WithMargin(sorted, FALSE), TopN, "Profit_Margin")])
    /\ UNCHANGED <<df, filters, filtered_df>>

\* lines 336-343
DashShipping(frame) ==
    WithMargin(
        WithAvgShippingDays(GroupBy(frame, ByShipMode, ShipModes), frame, FALSE),
        FALSE)

\* lines 332-391: shipping_analysis; then the Discount_Bin column is added
\* to filtered_df, and discount_analysis
DashTab5 ==
    \/ /\ {"Ship Mode", "Discount"} \subseteq columns
       /\ Step("dashboard", "tab5", "done")
       /\ filtered_df' = AddDiscountBin(filtered_df)
       /\ \E observed \in BOOLEAN :
             out' = Put([shipping_analysis |-> DashShipping(filtered_df),
                         discount_analysis |->
                             WithMargin(GroupByBin(filtered_df', observed), FALSE)])
       /\ UNCHANGED <<df, filters>>
    \/ /\ "Ship Mode" \notin columns
       /\ KeyError("dashboard", "tab5")
    \/ /\ "Ship Mode" \in columns
       /\ "Discount" \notin columns
       /\ Step("dashboard", "tab5", "KeyError")
       /\ out' = Put([shipping_analysis |-> DashShipping(filtered_df)])
       /\ UNCHANGED <<df, filters, filtered_df>>

-----------------------------------------------------------------------------

Next ==
    \/ BasicClean \/ BasicTopProducts \/ BasicRegionProfit \/ BasicAdvanced
    \/ BasicInsights
    \/ EnhClean \/ EnhTimeSeries \/ EnhCustomer \/ EnhProduct \/ EnhGeographic
    \/ EnhCategory \/ EnhShipping \/ EnhDiscount \/ EnhCorrelation \/ EnhKPI
    \/ EnhReport
    \/ DashLoad \/ DashSidebar \/ DashKeyMetrics \/ DashTab1 \/ DashTab2
    \/ DashTab3 \/ DashTab4 \/ DashTab5

Spec == Init /\ [][Next]_vars

\* the same scripts on a file of LossRows products
InitLoss ==
    /\ script \in Scripts
    /\ pc = "start"
    /\ raw \in LossInputs
    /\ columns \in Headers
    /\ df = <<>>
    /\ filters = <<>>
    /\ filtered_df = <<>>
    /\ out = <<>>

SpecLoss == InitLoss /\ [][Next]_vars

\* the same scripts on the files of ShipInputs
InitShip ==
    /\ script \in Scripts
    /\ pc = "start"
    /\ raw \in ShipInputs
    /\ columns \in Headers
    /\ df = <<>>
    /\ filters = <<>>
    /\ filtered_df = <<>>
    /\ out = <<>>

SpecShip == InitShip /\ [][Next]_vars

-----------------------------------------------------------------------------
(* Properties *)

Has(n) == n \in DOMAIN out

\* the record set the rollups of the running script read
Frame == IF script = "dashboard" THEN filtered_df ELSE df

\* the results that hold every group of a rollup (not a head or nlargest)
FullRollups ==
    {"monthly_sales", "monthly_profit", "customer_analysis", "product_analysis",
     "regional_analysis", "state_analysis", "category_analysis",
     "subcategory_analysis", "shipping_analysis", "discount_analysis",
     "category_sales", "category_profit", "region_profit", "cat_profit",
     "sub_profit", "sub_sales"}
    \cup (IF script = "enhanced" THEN {"top_products"} ELSE {})

Computed == FullRollups \cap DOMAIN out

GroupCount(tbl) == SumSet([j \in 1..Len(tbl) |-> Cardinality(tbl[j].rows)], 1..Len(tbl))

IsPartition(tbl, frame) ==
    /\ \A i, j \in 1..Len(tbl) : i # j => tbl[i].rows \cap tbl[j].rows = {}
    /\ UNION {tbl[j].rows : j \in 1..Len(tbl)} = 1..Len(frame)
    /\ GroupCount(tbl) = Len(frame)

\* C1 (as claimed): the groups of every rollup partition the cleaned record
\* set: each record is in exactly one group and the group record counts add
\* up to the number of records left after row dropping.
C1_GroupsPartitionRecords == \A n \in Computed : IsPartition(out[n], Frame)

\* the frame carries the derived per-record columns
Cleaned == pc # "start" /\ script \in {"enhanced", "dashboard"}

\* m is profit/sales*100, or its rounding to 2 decimals:
\* |m - profit/sales*100| <= 0.005
WithinRounding(m, profit, sales) ==
    \/ m = MarginPct(profit, sales)
    \/ /\ IsNum(m)
       /\ m.d <= 100
       /\ 200 * Abs(m.n * sales - profit * 100 * m.d) <= m.d * Abs(sales)

\* C2 (as claimed): the per-record profit margin is undefined exactly when
\* sales = 0, whatever the profit; otherwise it is profit / sales * 100 (up
\* to the rounding of the stored value).
C2_MarginUndefinedIffZeroSales ==
    Cleaned =>
        \A i \in 1..Len(df) :
            /\ IsNaN(df[i].ProfitMargin) <=> df[i].Sales = 0
            /\ df[i].Sales # 0 =>
                   WithinRounding(df[i].ProfitMargin, df[i].Profit, df[i].Sales)

\* v lies in the i-th interval (e_i, e_{i+1}] of the edges
InBand(v, edges, i) == edges[i] < v /\ v <= edges[i + 1]

RightInclusive(v, label, edges, labels) ==
    /\ \A i \in 1..Len(labels) : label = labels[i] <=> InBand(v, edges, i)
    /\ v <= edges[1] => label = NaNLabel

\* the value the customer tiers are cut from
TierValue(g) == IF "Total_Sales" \in DOMAIN g THEN g.Total_Sales ELSE g.Sales

SummedMetrics == {"Sales", "Profit", "Quantity"}

\* the column of a rollup that holds the sum of metric m
SumColumn(g, m) ==
    IF m = "Sales" /\ "Total_Sales" \in DOMAIN g THEN g.Total_Sales
    ELSE IF m = "Profit" /\ "Total_Profit" \in DOMAIN g THEN g.Total_Profit
    ELSE g[m]

HasSumColumn(tbl, m) ==
    \A j \in 1..Len(tbl) :
        m \in DOMAIN tbl[j] \/ (m # "Quantity" /\ "Total_Sales" \in DOMAIN tbl[j])

\* C4 (as claimed): for every rollup and every summed metric, the per-group
\* sums added over all groups give the whole-dataset total of the metric
\* over the same record set.
C4_GroupSumsAddUpToTotal ==
    \A n \in Computed : \A m \in SummedMetrics :
        HasSumColumn(out[n], m) =>
            SumSet([j \in 1..Len(out[n]) |-> SumColumn(out[n][j], m)], 1..Len(out[n]))
                = SumOf(Frame, All(Frame), m)

\* C5 (as claimed): a record whose order year/month or discount band is
\* undefined is in a group of the rollup keyed by the undefined value; it is
\* never left out.
C5_UndefinedKeyFormsGroup ==
    /\ \A n \in {"monthly_sales", "monthly_profit"} \cap DOMAIN out :
           \A i \in 1..Len(Frame) :
               IsNAYearMonth(KeyOf(Frame[i], ByYearMonth)) =>
                   \E j \in 1..Len(out[n]) :
                       IsNAYearMonth(out[n][j].key) /\ i \in out[n][j].rows
    /\ Has("discount_analysis") =>
           \A i \in 1..Len(Frame) :
               IsNALabel(Frame[i].Discount_Bin) =>
                   \E j \in 1..Len(out.discount_analysis) :
                       /\ IsNALabel(out.discount_analysis[j].key)
                       /\ i \in out.discount_analysis[j].rows

OrdersOf(frame)    == NUnique(frame, All(frame), "OrderID")
CustomersOf(frame) == NUnique(frame, All(frame), "Customer")

ZeroDivision(numerator) ==
    IF numerator > 0 THEN PosInf ELSE IF numerator < 0 THEN NegInf ELSE NaN

Min(a, b) == IF a <= b THEN a ELSE b

Rank(universe, k) == CHOOSE i \in 1..Len(universe) : universe[i] = k

\* a comes before b: greater sales, or equal sales and the smaller key
Before(a, b, universe) ==
    \/ a.Sales > b.Sales
    \/ a.Sales = b.Sales /\ Rank(universe, a.key) < Rank(universe, b.key)

\* L is the top n of the groups G: by sales descending, ties by key ascending
IsTop(L, G, n, universe) ==
    /\ Len(L) = Min(n, Len(G))
    /\ \A i \in 1..Len(L) :
           \E j \in 1..Len(G) : G[j].key = L[i].key /\ G[j].Sales = L[i].Sales
    /\ \A i, j \in 1..Len(L) : i < j => Before(L[i], L[j], universe)
    /\ \A j \in 1..Len(G) :
           (\A i \in 1..Len(L) : L[i].key # G[j].key) =>
               \A i \in 1..Len(L) : Before(L[i], G[j], universe)

\* C7 (as claimed): top-N by sales (products, customers, states) is the N
\* groups of greatest sales in descending order, groups of equal sales in
\* ascending key order.
C7_TopNTiesByKey ==
    /\ script = "enhanced" /\ Has("top_10_sales") =>
           IsTop(out.top_10_sales, out.top_products, TopN, NameOrder)
    /\ script = "enhanced" /\ Has("top_states") =>
           IsTop(out.top_states, out.state_analysis, TopN, States)
    /\ script = "dashboard" /\ Has("top_products") =>
           IsTop(out.top_products, out.product_analysis, TopN, NameOrder)
    /\ script = "dashboard" /\ Has("top_customers") =>
           IsTop(out.top_customers, out.customer_analysis, TopN, NameOrder)
    /\ script = "dashboard" /\ Has("top_states") =>
           IsTop(out.top_states, out.state_analysis, TopN, States)
    /\ script = "basic" /\ Has("top_products") =>
           IsTop(out.top_products, GroupBy(df, ByProduct, NameOrder),
                 TopN, NameOrder)

\* C8 (as claimed): the loss-making selection is the (up to) 10 products of
\* negative total profit with the smallest total profit: no negative-profit
\* product left out has a lower profit than one that is returned.
C8_LossMakersAreLowestProfit ==
    Has("bottom_10_profit") =>
        LET L   == out.bottom_10_profit
            neg == {j \in 1..Len(out.top_products) : out.top_products[j].Profit < 0}
        IN /\ Len(L) = Min(TopN, Cardinality(neg))
           /\ \A i \in 1..Len(L) : L[i].Profit < 0
           /\ \A j \in neg :
                  (\A i \in 1..Len(L) : L[i].key # out.top_products[j].key) =>
                      \A i \in 1..Len(L) : L[i].Profit <= out.top_products[j].Profit

\* the input columns of a cleaned row
Proj(r) == [c \in DOMAIN Base |-> r[c]]

InputColumns(frame) == [j \in 1..Len(frame) |-> Proj(frame[j])]

Parsed == ParseDates(raw)

HasPostal(i)  == ~IsNaN(raw[i].PostalCode)
DateFailed(i) == Parsed[i].OrderDate.nat \/ Parsed[i].ShipDate.nat

AfterCleaning == pc # "start"

\* the row count is the input's less the rows without Postal Code, and
\* every input row with a Postal Code is still there, its dates parsed
OnlyPostalDropped ==
    /\ Len(df) = Len(raw) - Cardinality({i \in 1..Len(raw) : ~HasPostal(i)})
    /\ \A i \in 1..Len(raw) :
           HasPostal(i) => \E j \in 1..Len(df) : Proj(df[j]) = Parsed[i]

Complete(i) == HasPostal(i) /\ (script = "basic" => ~DateFailed(i))

\* the input in its order, the rows missing a required field removed
InputKept == SubSeqAt(Parsed, {i \in 1..Len(raw) : Complete(i)})

\* C10 (as claimed): the normalizer keeps full-row duplicates and the input
\* order: the cleaned sequence is the input sequence with only the rows
\* missing a required field removed.
C10_DuplicatesKeptEverywhere == AfterCleaning => InputColumns(df) = InputKept

NoDuplicates(frame) == \A i, j \in 1..Len(frame) : i # j => frame[i] # frame[j]

\* C10 (amended): the enhanced script and the dashboard keep full-row
\* duplicates and the input order: their cleaned sequence is the input
\* sequence with only the rows without Postal Code removed, and two
\* identical rows both count in the totals.  The basic script removes
\* full-row duplicates: of identical rows the first stays, in input order.
C10_DuplicatesKeptExceptBasic ==
    /\ AfterCleaning /\ script \in {"enhanced", "dashboard"} =>
           InputColumns(df) = InputKept
    /\ script = "enhanced" /\ Has("kpi") =>
           out.kpi.total_sales = SumOf(InputKept, All(InputKept), "Sales")
    /\ AfterCleaning /\ script = "basic" =>
           /\ NoDuplicates(df)
           /\ \E I \in SUBSET (1..Len(InputKept)) :
                  /\ df = SubSeqAt(InputKept, I)
                  /\ \A i \in 1..Len(InputKept) :
                         i \in I <=> \A h \in 1..(i - 1) : InputKept[h] # InputKept[i]

\* two identical rows are both in the cleaned frame of the enhanced script
\* and both count in total sales
C10_Witness ==
    /\ script = "enhanced"
    /\ Has("kpi")
    /\ Len(raw) = 2
    /\ raw[1] = raw[2]
    /\ Len(df) = 2
    /\ out.kpi.total_sales = 2 * raw[1].Sales
    /\ raw[1].Sales > 0

\* a result has been produced: an aggregate, a KPI or the chart drawn of it
Produced == DOMAIN out # {}

\* C11 (as claimed): when an expected column is absent the run fails before
\* any aggregation is computed and before any result is produced: no run
\* produces some results and then fails on the missing column, and none
\* runs to its end.
C11_MissingColumnFailsFast ==
    /\ pc = "KeyError" => ~Produced
    /\ columns # AllColumns => pc # "done"

\* C12 (as claimed): the reported order count is the number of distinct
\* order ids, several rows of one Order ID counting as one order, and the
\* average order value is total sales divided by that count, in every
\* script that reports them.
C12_OrderCountIsDistinct ==
    /\ script \in {"basic", "enhanced"} /\ Has("kpi") =>
           out.kpi.total_orders = OrdersOf(Frame)
    /\ script = "enhanced" /\ Has("kpi") =>
           out.kpi.avg_order_value = FDiv(out.kpi.total_sales, OrdersOf(Frame))
    /\ script = "dashboard" /\ Has("total_orders") =>
           out.total_orders = OrdersOf(Frame)
    /\ script = "dashboard" /\ Has("avg_order_value") =>
           out.avg_order_value = FDiv(out.total_sales, OrdersOf(Frame))

\* total profit / total sales * 100 over the whole record set
OverallMargin(frame) ==
    MarginPct(SumOf(frame, All(frame), "Profit"), SumOf(frame, All(frame), "Sales"))

\* C13 (as claimed): every figure reported as the average profit margin is
\* total profit / total sales * 100 over the full (filtered) record set,
\* whatever the grouping of the records into products.
C13_AvgMarginIndependentOfGrouping ==
    /\ script \in {"basic", "enhanced"} /\ Has("kpi") =>
           out.kpi.avg_profit_margin = OverallMargin(Frame)
    /\ script = "dashboard" /\ Has("avg_profit_margin") =>
           out.avg_profit_margin = OverallMargin(Frame)

\* the dashboard has applied its filters
Filtered ==
    /\ script = "dashboard"
    /\ \/ pc \in {"metrics", "tab1", "tab2", "tab3", "tab4", "tab5", "done", "KeyError"}
       \/ pc = "error" /\ Has("total_sales")

\* start <= d <= end for a defined order date d
WithinDates(r, start, end) ==
    /\ ~r.OrderDate.nat /\ ~start.nat /\ ~end.nat
    /\ Ordinal(start) <= Ordinal(r.OrderDate)
    /\ Ordinal(r.OrderDate) <= Ordinal(end)

\* on or after start for a defined order date d
FromDate(r, start) ==
    ~r.OrderDate.nat /\ ~start.nat /\ Ordinal(start) <= Ordinal(r.OrderDate)

CategoryMatches(r) ==
    filters.selected_category = "All" \/ r.Category = filters.selected_category

RegionMatches(r) ==
    filters.selected_region = "All" \/ r.Region = filters.selected_region

\* the claimed condition; while only a start date is picked there is no end
\* to compare with
MatchesAsClaimed(r) ==
    /\ IF Len(filters.date_range) = 2
       THEN WithinDates(r, filters.date_range[1], filters.date_range[2])
       ELSE FromDate(r, filters.date_range[1])
    /\ CategoryMatches(r)
    /\ RegionMatches(r)

\* the condition with the date test only for a complete (start, end) range
MatchesWhenComplete(r) ==
    /\ Len(filters.date_range) = 2 =>
           WithinDates(r, filters.date_range[1], filters.date_range[2])
    /\ CategoryMatches(r)
    /\ RegionMatches(r)

WithoutBin(frame) ==
    [j \in 1..Len(frame) |-> [c \in DOMAIN frame[j] \ {"Discount_Bin"} |-> frame[j][c]]]

\* the dashboard figures are those of exactly the records of df in I
FiguresOver(I) ==
    /\ WithoutBin(filtered_df) = SubSeqAt(df, I)
    /\ Has("total_sales") =>
           /\ out.total_sales = SumOf(df, I, "Sales")
           /\ out.total_profit = SumOf(df, I, "Profit")
           /\ out.total_orders = Cardinality({df[i].OrderID : i \in I})
    /\ Has("total_customers") =>
           out.total_customers = Cardinality({df[i].Customer : i \in I})
    /\ \A n \in Computed :
           SumSet([j \in 1..Len(out[n]) |-> Cardinality(out[n][j].rows)], 1..Len(out[n]))
               <= Cardinality(I)

\* C14 (as claimed): a record contributes to a dashboard figure if and only
\* if its order date d satisfies start <= d <= end, its category is the
\* selected one (or 'All') and its region is the selected one (or 'All').
C14_FiltersAlwaysApplied ==
    Filtered => FiguresOver({i \in 1..Len(df) : MatchesAsClaimed(df[i])})

\* C14 (amended): the filters are applied before every aggregation and KPI.
\* When the date widget holds a complete (start, end) range, a record
\* contributes if and only if start <= d <= end (both ends inclusive, a
\* record without order date never), its category is the selected one (or
\* 'All') and its region is the selected one (or 'All').  While the widget
\* holds only a start date no date filter is applied: every order date, also
\* an earlier or a missing one, passes.
C14_FiltersInclusive ==
    Filtered => FiguresOver({i \in 1..Len(df) : MatchesWhenComplete(df[i])})

\* the range 15 Jan .. 15 Jan keeps the record of 15 Jan (both ends
\* inclusive) and leaves the record of 3 Feb out
C14_Witness ==
    /\ script = "dashboard"
    /\ pc = "done"
    /\ Len(df) = 2
    /\ Len(filtered_df) = 1
    /\ Len(filters.date_range) = 2
    /\ filters.date_range[1] = filtered_df[1].OrderDate
    /\ filters.date_range[2] = filtered_df[1].OrderDate
    /\ filters.selected_category = "All"
    /\ filters.selected_region = "All"
    /\ out.total_sales = filtered_df[1].Sales

\* C15 (as claimed): the profit margin of every group of every rollup is
\* sum(profit) / sum(sales) * 100 of the group's sums (up to the rounding of
\* the stored value), and it is undefined, neither 0 nor infinite, when the
\* group's sum(sales) is 0, whether sum(profit) is zero or not.
C15_GroupMarginUndefinedOnZeroSales ==
    \A n \in Computed : \A j \in 1..Len(out[n]) :
        LET g == out[n][j] IN
        "Profit_Margin" \in DOMAIN g =>
            /\ g.Sales = 0 => IsNaN(g.Profit_Margin)
            /\ g.Sales # 0 => WithinRounding(g.Profit_Margin, g.Profit, g.Sales)

\* the group's sums carry no rounding, and its ratios and its tier are those
\* of the exact sums
GroupUnrounded(g, frame) ==
    LET sales  == SumOf(frame, g.rows, "Sales")
        profit == SumOf(frame, g.rows, "Profit")
    IN /\ SumColumn(g, "Sales") = sales
       /\ SumColumn(g, "Profit") = profit
       /\ "Profit_Margin" \in DOMAIN g => g.Profit_Margin = MarginPct(profit, sales)
       /\ {"Avg_Order_Value", "Orders"} \subseteq DOMAIN g =>
              g.Avg_Order_Value = FDiv(sales, g.Orders)
       /\ "Customer_Segment" \in DOMAIN g =>
              g.Customer_Segment = Cut(sales, CustomerBins, CustomerLabels)

\* C16 (as claimed): derived values are kept unrounded: the stored
\* per-record profit margin is profit / sales * 100 exactly, the per-group
\* sums carry no 2-decimal rounding, and the ratios (profit margin, average
\* order value) and the customer tier computed from group sums are those of
\* the exact sums.
C16_InternalValuesUnrounded ==
    /\ Cleaned =>
           \A i \in 1..Len(df) :
               df[i].ProfitMargin = MarginPct(df[i].Profit, df[i].Sales)
    /\ \A n \in Computed : \A j \in 1..Len(out[n]) :
           GroupUnrounded(out[n][j], Frame)

\* the records of frame shipped by mode
OfShipMode(frame, mode) == {i \in 1..Len(frame) : frame[i].ShipMode = mode}

\* the records of I whose shipping days are defined
WithShippingDays(frame, I) == {i \in I : IsNum(frame[i].ShippingDays)}

\* C17 (as claimed): shipping days is ship date - order date in whole days
\* when both dates are defined and undefined when either is missing; the
\* average shipping days of a ship-mode group is the mean over only the
\* records of the group with defined shipping days, and the records without
\* them still count in the group's sales and profit sums.
C17_ShippingDaysMean ==
    /\ Cleaned =>
           \A i \in 1..Len(df) :
               df[i].ShippingDays =
                   IF df[i].ShipDate.nat \/ df[i].OrderDate.nat THEN NaN
                   ELSE Num(Ordinal(df[i].ShipDate) - Ordinal(df[i].OrderDate))
    /\ Has("shipping_analysis") =>
           \A j \in 1..Len(out.shipping_analysis) :
               LET g == out.shipping_analysis[j]
                   I == OfShipMode(Frame, g.key)
                   D == WithShippingDays(Frame, I)
               IN /\ g.Avg_Shipping_Days =
                         FDiv(SumSet([i \in D |-> Frame[i].ShippingDays.n], D),
                              Cardinality(D))
                  /\ g.Sales = SumOf(Frame, I, "Sales")
                  /\ g.Profit = SumOf(Frame, I, "Profit")

\* the tenth a discount (in percent) lies in: 1 for (0, 10], 2 for (10, 20], ...
Tenth(d) == (d + 9) \div 10

\* C18 (as claimed): the discount bands are cut at the edges 0, 0.1, 0.2, ...,
\* 1.0, so two discounts in different tenths above 0.5 fall in different
\* bands.
C18_BandPerTenth ==
    Has("discount_analysis") =>
        \A i, j \in 1..Len(Frame) :
            /\ Frame[i].Discount > 50
            /\ Frame[j].Discount > 50
            /\ Tenth(Frame[i].Discount) # Tenth(Frame[j].Discount)
            => Frame[i].Discount_Bin # Frame[j].Discount_Bin

\* C18 (amended): the discount bands are cut at the edges 0, 0.1, 0.2, 0.3,
\* 0.4, 0.5, 1.0: one band per tenth up to 0.5 and a single band 50%+ for
\* (0.5, 1.0], so two positive discounts fall in the same band exactly when
\* they lie in the same tenth or both lie above 0.5.
C18_BandsUpToHalfThenOne ==
    Has("discount_analysis") =>
        \A i, j \in 1..Len(Frame) :
            /\ Frame[i].Discount > 50 => Frame[i].Discount_Bin = "50%+"
            /\ Frame[i].Discount > 0 /\ Frame[j].Discount > 0 =>
                   (Frame[i].Discount_Bin = Frame[j].Discount_Bin
                    <=> \/ Tenth(Frame[i].Discount) = Tenth(Frame[j].Discount)
                        \/ Frame[i].Discount > 50 /\ Frame[j].Discount > 50)

\* the discounts 0.55 and 0.75 are both in the band 50%+
C18_Witness ==
    /\ Has("discount_analysis")
    /\ \E i, j \in 1..Len(Frame) :
           /\ Frame[i].Discount = 55
           /\ Frame[j].Discount = 75
           /\ Frame[i].Discount_Bin = "50%+"
           /\ Frame[j].Discount_Bin = "50%+"

\* the positions before the shared record set is complete: loading and
\* cleaning, and the dashboard's filtering
Preparing == pc \in {"start", "sidebar"}

\* C19 (as claimed): the rollups are independent of one another: each rollup
\* only reads the shared cleaned record set, so that any order of the rollups
\* gives the same results, and no rollup changes the record set that another
\* one reads.
C19_RollupsOnlyRead ==
    [][~Preparing => df' = df /\ filtered_df' = filtered_df]_vars

\* the input rows in every order
RowOrders ==
    LET n == Len(raw)
    IN {[i \in 1..n |-> raw[p[i]]] :
            p \in {q \in [1..n -> 1..n] : \A a, b \in 1..n : q[a] = q[b] => a = b}}

\* the record set a run of the script on the file rows, with the filter
\* parameters of this run, hands to its rollups; the band column is added to
\* have the key of the discount rollup at hand
RerunFrame(rows) ==
    AddDiscountBin(IF script = "basic" THEN BasicCleaned(rows)
                   ELSE IF script = "enhanced" THEN EnhancedCleaned(rows)
                   ELSE ApplyFilters(load_data(rows), filters))

\* the column each rollup groups by
RollupKey(n) ==
    IF n \in {"monthly_sales", "monthly_profit"} THEN ByYearMonth
    ELSE IF n = "customer_analysis" THEN ByCustomer
    ELSE IF n \in {"product_analysis", "top_products"} THEN ByProduct
    ELSE IF n \in {"regional_analysis", "region_profit"} THEN ByRegion
    ELSE IF n = "state_analysis" THEN ByState
    ELSE IF n \in {"subcategory_analysis", "sub_profit", "sub_sales"} THEN BySubCategory
    ELSE IF n = "shipping_analysis" THEN ByShipMode
    ELSE IF n = "discount_analysis" THEN ByDiscountBin
    ELSE ByCategory

\* the sum x of metric m as rollup n of the running script stores it
StoredSum(n, m, x) ==
    IF /\ script = "enhanced"
       /\ n \notin {"monthly_sales", "monthly_profit"}
       /\ m # "Quantity"
    THEN Round2(x) ELSE x

\* group g of rollup n has the sums, counts, distinct counts and segment
\* that the records of its key in frame give
SameGroup(n, g, frame) ==
    LET I == GroupIdx(frame, RollupKey(n), g.key)
    IN /\ Cardinality(I) = Cardinality(g.rows)
       /\ \A m \in SummedMetrics :
              (m \in DOMAIN g \/ (m # "Quantity" /\ "Total_Sales" \in DOMAIN g)) =>
                  SumColumn(g, m) = StoredSum(n, m, SumOf(frame, I, m))
       /\ "Orders" \in DOMAIN g => g.Orders = NUnique(frame, I, "OrderID")
       /\ "Customers" \in DOMAIN g => g.Customers = NUnique(frame, I, "Customer")
       /\ "Order_Count" \in DOMAIN g => g.Order_Count = Cardinality(I)
       /\ "Customer_Segment" \in DOMAIN g =>
              g.Customer_Segment =
                  Cut(StoredSum(n, "Sales", SumOf(frame, I, "Sales")),
                      CustomerBins, CustomerLabels)

\* the keys of the groups of frame that hold a record
KeysIn(frame, by) ==
    {k \in {KeyOf(frame[i], by) : i \in 1..Len(frame)} : ~IsNA(k, by)}

\* a run of the script has come to its end, with or without a failure, after
\* it has prepared its record set; out then holds every result of the run
Finished ==
    /\ pc \in {"done", "error", "KeyError"}
    /\ script = "dashboard" => filters # <<>>

DefaultFilters ==
    /\ script = "dashboard"
    /\ filters # <<>>
    /\ ValidDates(df) # {}
    /\ filters.date_range = <<min_date(df), max_date(df)>>
    /\ filters.selected_category = "All"
    /\ filters.selected_region = "All"

\* C21 (as claimed): with the dashboard filters at their defaults the
\* filtered record set equals the loaded record set, so the default KPIs cover
\* every loaded record, including the records whose order date is undefined.
C21_DefaultFiltersKeepEverything ==
    DefaultFilters =>
        /\ WithoutBin(filtered_df) = df
        /\ Has("total_orders") =>
               /\ out.total_sales = SumOf(df, All(df), "Sales")
               /\ out.total_profit = SumOf(df, All(df), "Profit")
               /\ out.total_orders = NUnique(df, All(df), "OrderID")

====
